---- MODULE Spec2Model ----
(***************************************************************************)
(* abigenjs: the Generator class (src/abigen/generator.cjs) and the CLI    *)
(* entry point (src/index.ts).                                             *)
(*                                                                         *)
(* Strings are sequences of one-character strings, so that length tests,   *)
(* concatenation, split, basename and dirname are computed, not assumed.   *)
(* JSON values are tagged records [t, v]; a parsed file is [t, v, f] with  *)
(* f the four fields the program reads.                                    *)
(***************************************************************************)
EXTENDS Integers, Sequences, FiniteSets, TLC

VARIABLES
    files,              \* regular files that exist (absolute paths)
    dirs,               \* directories that exist (absolute paths)
    pc,                 \* position of the Generator object / its caller
    abigenVersion,      \* this.abigenVersion
    genArtifacts,       \* generate: the artifacts argument
    genDeployable,      \* generate: the deployable argument
    idx,                \* generate: index of the artifact of the current iteration
    invoked,            \* argument vectors handed to the external generator by the current generate call
    raised,             \* message of the error the last operation threw ("" when it threw none)
    calls,              \* number of Generator operations started
    tree0,              \* history: the filesystem at the start
    processArgv,        \* process.argv, as the options and positional arguments given
    mainPc,             \* position of main()
    mainError,          \* main: message of the error that ended the run ("" when none)
    opts,               \* main: parsed options
    inputs,             \* main: positional arguments
    candidateFiles,     \* main: result of collectCandidateFiles
    fileIdx,            \* main: index of the candidate file of the current iteration
    fileData,           \* history: what readJson gave for each candidate file processed so far
    artifacts,          \* main: the batch
    artifactFile,       \* history: for each artifact of the batch, the file it came from
    notices,            \* main: warnings
    validationFailures, \* main: per-file validation failures
    errs,               \* main: result of the last validateArtifact call
    exitStatus          \* main: process exit status ("running" until the run ends)

genVars == <<files, dirs, pc, abigenVersion, genArtifacts, genDeployable, idx, invoked, raised, calls>>
mainVars == <<tree0, processArgv, mainPc, mainError, opts, inputs, candidateFiles, fileIdx, fileData, artifacts, artifactFile,
              notices, validationFailures, errs, exitStatus>>
vars == <<genVars, mainVars>>

---------------------------------------------------------------------------
(* Bounds *)

MaxArtifacts == 3
MaxCalls == 2
MaxInputs == 2

---------------------------------------------------------------------------
(* Characters and strings *)

UpperChars == <<"A","B","C","D","E","F","G","H","I","J","K","L","M",
                "N","O","P","Q","R","S","T","U","V","W","X","Y","Z">>
LowerChars == <<"a","b","c","d","e","f","g","h","i","j","k","l","m",
                "n","o","p","q","r","s","t","u","v","w","x","y","z">>
DigitChars == <<"0","1","2","3","4","5","6","7","8","9">>

Range(s) == { s[i] : i \in DOMAIN s }

IsLetter(c) == c \in Range(UpperChars) \cup Range(LowerChars)
IsAlnum(c) == IsLetter(c) \/ c \in Range(DigitChars)

toLowerCase(s) ==
    [ i \in DOMAIN s |->
        IF s[i] \in Range(UpperChars)
        THEN LowerChars[CHOOSE k \in DOMAIN UpperChars : UpperChars[k] = s[i]]
        ELSE s[i] ]

toUpperCase(s) ==
    [ i \in DOMAIN s |->
        IF s[i] \in Range(LowerChars)
        THEN UpperChars[CHOOSE k \in DOMAIN LowerChars : LowerChars[k] = s[i]]
        ELSE s[i] ]

\* s.replaceAll(c, "") for a one-character c
removeAll(s, c) == SelectSeq(s, LAMBDA x : x # c)

RECURSIVE split(_, _)
\* s.split(sep) for a one-character sep
split(s, sep) ==
    IF \A i \in DOMAIN s : s[i] # sep
    THEN << s >>
    ELSE LET i == CHOOSE k \in DOMAIN s : s[k] = sep /\ \A j \in 1..(k - 1) : s[j] # sep
         IN  << SubSeq(s, 1, i - 1) >> \o split(SubSeq(s, i + 1, Len(s)), sep)

IsPrefix(p, q) == Len(p) <= Len(q) /\ SubSeq(q, 1, Len(p)) = p
IsSuffix(p, q) == Len(p) <= Len(q) /\ SubSeq(q, Len(q) - Len(p) + 1, Len(q)) = p

\* path.dirname (POSIX)
dirname(p) ==
    IF Len(p) = 0 THEN << "." >>
    ELSE LET hasRoot == p[1] = "/"
             \* last separator that is followed by a non-separator, scanning from the end down to index 2
             ends == { i \in 2..Len(p) :
                         /\ p[i] = "/"
                         /\ \E j \in (i + 1)..Len(p) : p[j] # "/" }
         IN  IF ends = {} THEN (IF hasRoot THEN << "/" >> ELSE << "." >>)
             ELSE LET end == CHOOSE i \in ends : \A k \in ends : k <= i
                  IN  IF hasRoot /\ end = 2 THEN << "/", "/" >> ELSE SubSeq(p, 1, end - 1)

\* path.extname (POSIX): from the last "." of the last path segment, "" when that "." starts the segment
extname(p) ==
    LET segStart == IF \E i \in DOMAIN p : p[i] = "/"
                    THEN (CHOOSE i \in DOMAIN p : p[i] = "/" /\ \A j \in (i + 1)..Len(p) : p[j] # "/") + 1
                    ELSE 1
        dots == { i \in segStart..Len(p) : p[i] = "." }
    IN  IF dots = {} THEN << >>
        ELSE LET d == CHOOSE i \in dots : \A k \in dots : k <= i
             IN  IF d = segStart THEN << >> ELSE SubSeq(p, d, Len(p))

\* path.basename(p, ext) (POSIX, p without trailing separators)
basename(p, ext) ==
    LET segStart == IF \E i \in DOMAIN p : p[i] = "/"
                    THEN (CHOOSE i \in DOMAIN p : p[i] = "/" /\ \A j \in (i + 1)..Len(p) : p[j] # "/") + 1
                    ELSE 1
        base == SubSeq(p, segStart, Len(p))
    IN  IF Len(ext) > 0 /\ Len(ext) < Len(base) /\ IsSuffix(ext, base)
        THEN SubSeq(base, 1, Len(base) - Len(ext))
        ELSE base

---------------------------------------------------------------------------
(* JSON values *)

JUndefined == [t |-> "undefined", v |-> << >>]
JNumber == [t |-> "number", v |-> << "7" >>]
JString(s) == [t |-> "string", v |-> s]
JArray(a) == [t |-> "array", v |-> a]
JObject == [t |-> "object", v |-> << >>]

isString(x) == x.t = "string"
isArray(x) == x.t = "array"
\* JavaScript truthiness of a JSON value
truthy(x) ==
    CASE x.t \in {"undefined", "null"} -> FALSE
      [] x.t = "string" -> Len(x.v) > 0
      [] x.t = "number" -> x.v # << "0" >>
      [] OTHER -> TRUE

S_T == << "T" >>
S_aB == << "a", "_", "B" >>
S_src == << "c", "/", "T", ".", "s" >>
S_code == << "0", "x" >>
AbiValue == << "f" >>

---------------------------------------------------------------------------
(* The filesystem *)

OutDir == << "/", "o" >>

exists(p) == p \in files \cup dirs

\* q is p or lies beneath p
Under(p, q) == q = p \/ IsPrefix(p \o << "/" >>, q)

\* the directories fsp.mkdir(p, {recursive: true}) makes exist
mkdirRecursive(p) ==
    { SubSeq(p, 1, i) : i \in { j \in 1..Len(p) : j = Len(p) \/ p[j + 1] = "/" } }

---------------------------------------------------------------------------
(* Generator (src/abigen/generator.cjs) *)

Lit_abi == << ".", "a", "b", "i" >>
Lit_bin == << ".", "b", "i", "n" >>
Lit_go == << ".", "g", "o" >>
Lit_abigen == << "a", "b", "i", "g", "e", "n" >>
Lit_v2 == << " ", "-", "-", "v", "2" >>
Lit_optAbi == << " ", "-", "-", "a", "b", "i", " " >>
Lit_optPkg == << " ", "-", "-", "p", "k", "g", " " >>
Lit_optType == << " ", "-", "-", "t", "y", "p", "e", " " >>
Lit_optOut == << " ", "-", "-", "o", "u", "t", " " >>
Lit_optBin == << " ", "-", "-", "b", "i", "n", " " >>
Lit_Contract == << "C", "o", "n", "t", "r", "a", "c", "t" >>

\* _sanitizeTypeName without the letter prefix
_sanitizeTypeName_noPrefix(name) ==
    LET t0 == SelectSeq(name, IsAlnum)
        t1 == IF Len(t0) = 0 THEN Lit_Contract ELSE t0
    IN  toUpperCase(SubSeq(t1, 1, 1)) \o SubSeq(t1, 2, Len(t1))

_sanitizeTypeName(name) ==
    LET t0 == SelectSeq(name, IsAlnum)
        t1 == IF Len(t0) = 0 THEN Lit_Contract ELSE t0
        t2 == IF ~IsLetter(t1[1]) THEN << "X" >> \o t1 ELSE t1
    IN  toUpperCase(SubSeq(t2, 1, 1)) \o SubSeq(t2, 2, Len(t2))

abiPathOf(artifact) == OutDir \o << "/" >> \o artifact.contractName.v \o Lit_abi
binPathOf(artifact) == OutDir \o << "/" >> \o artifact.contractName.v \o Lit_bin
packageNameOf(artifact) == toLowerCase(removeAll(removeAll(artifact.contractName.v, "-"), "_"))

sourceDirOf(artifact) ==
    IF isString(artifact.sourceName) THEN dirname(artifact.sourceName.v) ELSE << >>

\* useFlatOut of the earlier generator: every artifact gets its own leaf directory
useFlatOut_never(artifact) == FALSE

useFlatOut(artifact) ==
    \/ ~truthy(artifact.sourceName)
    \/ (isString(artifact.sourceName) /\ Len(artifact.sourceName.v) = 0)
    \/ sourceDirOf(artifact) = << "." >>

genDirOf(artifact) ==
    IF useFlatOut(artifact) THEN OutDir
    ELSE OutDir \o << "/" >> \o sourceDirOf(artifact) \o << "/" >> \o packageNameOf(artifact)

genPathOf(artifact) == genDirOf(artifact) \o << "/" >> \o artifact.contractName.v \o Lit_go

\* the argument string of one iteration, before split(" ")
argvOf(artifact, version) ==
    Lit_abigen \o (IF version = "v1" THEN << >> ELSE Lit_v2)
        \o Lit_optAbi \o abiPathOf(artifact)
        \o Lit_optPkg \o packageNameOf(artifact)
        \o Lit_optType \o _sanitizeTypeName(artifact.contractName.v)
        \o Lit_optOut \o genPathOf(artifact)

\* stagesBin deciding on the deployable flag alone
stagesBin_always(artifact, deployable) == deployable

\* stagesBin without the length test
stagesBin_anyString(artifact, deployable) == deployable /\ isString(artifact.bytecode)

\* generate takes the deployable branch for this artifact
stagesBin(artifact, deployable) ==
    deployable /\ isString(artifact.bytecode) /\ Len(artifact.bytecode.v) > 0

argvBinOf(artifact, version) == argvOf(artifact, version) \o Lit_optBin \o binPathOf(artifact)

\* the token that follows flag in an argument vector (<< >> when the flag is absent)
argAfter(argv, flag) ==
    IF \E k \in 1..(Len(argv) - 1) : argv[k] = flag
    THEN argv[(CHOOSE k \in 1..(Len(argv) - 1) : argv[k] = flag) + 1]
    ELSE << >>

Flag_out == << "-", "-", "o", "u", "t" >>
Flag_bin == << "-", "-", "b", "i", "n" >>
Flag_v2 == << "-", "-", "v", "2" >>
Flag_abi == << "-", "-", "a", "b", "i" >>

Art(name, source, bytecode) ==
    [contractName |-> JString(name), sourceName |-> source, abi |-> JArray(AbiValue), bytecode |-> bytecode]

\* artifacts handed to generate through the programmatic API
ApiArtifacts ==
    { Art(S_T, JString(S_src), JString(S_code)),
      Art(S_aB, JString(<< >>), JUndefined) }

SeqsUpTo(S, n) == UNION { [1..k -> S] : k \in 0..n }

Versions == { "v1", "v2", "v3", "V2" }

\* Construct without the version check
Construct_unchecked(version) ==
    /\ abigenVersion' = version
    /\ pc' = "ready"
    /\ raised' = ""
    /\ UNCHANGED <<files, dirs, genArtifacts, genDeployable, idx, invoked, calls>>

\* new Generator(outDir, abigenVersion, abigenPath)
Construct(version) ==
    /\ abigenVersion' = version
    /\ IF version # "v1" /\ version # "v2"
       THEN /\ pc' = "ctor.threw"
            /\ raised' = "Unsupported abigen version"
       ELSE /\ pc' = "ready"
            /\ raised' = ""
    /\ UNCHANGED <<files, dirs, genArtifacts, genDeployable, idx, invoked, calls>>

\* the Generator object exists and no operation of it is running
Idle == pc \in { "ready", "generate.returned", "generate.threw", "clean.returned", "clean.threw" }

\* clean removing whatever is at the output path (rm with force, without the directory test)
Clean_force ==
    /\ calls' = calls + 1
    /\ pc' = "clean.returned"
    /\ raised' = ""
    /\ files' = { p \in files : ~Under(OutDir, p) }
    /\ dirs' = { p \in dirs : ~Under(OutDir, p) }
    /\ UNCHANGED <<abigenVersion, genArtifacts, genDeployable, idx, invoked>>

\* generator.clean()
Clean ==
    /\ calls' = calls + 1
    /\ IF ~exists(OutDir)
       THEN /\ pc' = "clean.returned"
            /\ raised' = ""
            /\ UNCHANGED <<files, dirs>>
       ELSE IF OutDir \notin dirs
       THEN /\ pc' = "clean.threw"
            /\ raised' = "outdir is not a directory"
            /\ UNCHANGED <<files, dirs>>
       ELSE /\ pc' = "clean.returned"
            /\ raised' = ""
            /\ files' = { p \in files : ~Under(OutDir, p) }
            /\ dirs' = { p \in dirs : ~Under(OutDir, p) }
    /\ UNCHANGED <<abigenVersion, genArtifacts, genDeployable, idx, invoked>>

\* generator.generate(arts, deployable, verbose): entry
GenerateCall(arts, deployable) ==
    /\ pc' = "generate"
    /\ genArtifacts' = arts
    /\ genDeployable' = deployable
    /\ idx' = 1
    /\ invoked' = << >>
    /\ raised' = ""
    /\ calls' = calls + 1
    /\ UNCHANGED <<files, dirs, abigenVersion>>

\* GenerateIteration with the failure of the external generator caught inside the loop
GenerateIteration_continue(ok) ==
    /\ pc = "generate"
    /\ idx <= Len(genArtifacts)
    /\ LET artifact == genArtifacts[idx]
           withBin == stagesBin(artifact, genDeployable)
           argv == split(IF withBin THEN argvBinOf(artifact, abigenVersion)
                                    ELSE argvOf(artifact, abigenVersion), " ")
           dirs1 == IF ~exists(OutDir) THEN dirs \cup mkdirRecursive(OutDir) ELSE dirs
           staged == { abiPathOf(artifact) } \cup (IF withBin THEN { binPathOf(artifact) } ELSE {})
       IN  /\ dirs' = dirs1 \cup mkdirRecursive(genDirOf(artifact))
           /\ invoked' = Append(invoked, argv)
           /\ files' = IF ok THEN (files \cup { argAfter(argv, Flag_out) }) \ staged
                             ELSE files \cup staged
           /\ raised' = IF ok THEN raised ELSE "abigen"
           /\ idx' = idx + 1
    /\ UNCHANGED <<pc, abigenVersion, genArtifacts, genDeployable, calls>>

\* one iteration of the loop of generate; ok is the outcome of the external generator
GenerateIteration(ok) ==
    /\ pc = "generate"
    /\ idx <= Len(genArtifacts)
    /\ LET artifact == genArtifacts[idx]
           abiPath == abiPathOf(artifact)
           binPath == binPathOf(artifact)
           genDir == genDirOf(artifact)
           withBin == stagesBin(artifact, genDeployable)
           argv == split(IF withBin THEN argvBinOf(artifact, abigenVersion)
                                    ELSE argvOf(artifact, abigenVersion), " ")
           dirs1 == IF ~exists(OutDir) THEN dirs \cup mkdirRecursive(OutDir) ELSE dirs
           dirs2 == dirs1 \cup mkdirRecursive(genDir)
           staged == { abiPath } \cup (IF withBin THEN { binPath } ELSE {})
       IN  IF \E d \in mkdirRecursive(genDir) : d \in files
           THEN \* fsp.mkdir rejects: a component of genDir is a regular file
                /\ pc' = "generate.threw"
                /\ raised' = "EEXIST"
                /\ dirs' = dirs1
                /\ UNCHANGED <<files, idx, invoked>>
           ELSE /\ dirs' = dirs2
                /\ invoked' = Append(invoked, argv)
                /\ IF ok
                   THEN \* the external generator writes its --out file; the staged files are removed
                        /\ files' = (files \cup { argAfter(argv, Flag_out) }) \ staged
                        /\ idx' = idx + 1
                        /\ UNCHANGED <<pc, raised>>
                   ELSE \* abigen rethrows; nothing after the call runs
                        /\ files' = files \cup staged
                        /\ pc' = "generate.threw"
                        /\ raised' = "abigen"
                        /\ UNCHANGED idx
    /\ UNCHANGED <<abigenVersion, genArtifacts, genDeployable, calls>>

\* generate: the loop is over
GenerateReturn ==
    /\ pc = "generate"
    /\ idx > Len(genArtifacts)
    /\ pc' = "generate.returned"
    /\ UNCHANGED <<files, dirs, abigenVersion, genArtifacts, genDeployable, idx, invoked, raised, calls>>

---------------------------------------------------------------------------
(* Validation (src/index.ts) *)

E_contractName == "Missing or invalid field: contractName (string)"
E_sourceName == "Missing or invalid field: sourceName (string)"
E_abi == "Missing or invalid field: abi (array)"
E_bytecode == "Missing or invalid field: bytecode (string) required when --deployable is set"

NoFields == [contractName |-> JUndefined, sourceName |-> JUndefined, abi |-> JUndefined, bytecode |-> JUndefined]

\* what JSON.parse gives; f holds the four properties main reads (all undefined unless t = "object")
Parsed(t, v, f) == [t |-> t, v |-> v, f |-> f]
\* readJson rejects (the file is not JSON)
Unparsable == Parsed("unparsable", << >>, NoFields)

validateArtifact(artifact, requireBytecode) ==
    (IF ~isString(artifact.contractName) \/ Len(artifact.contractName.v) = 0
     THEN << E_contractName >> ELSE << >>)
    \o (IF ~isString(artifact.sourceName) \/ Len(artifact.sourceName.v) = 0
        THEN << E_sourceName >> ELSE << >>)
    \o (IF ~isArray(artifact.abi) THEN << E_abi >> ELSE << >>)
    \o (IF requireBytecode /\ (~isString(artifact.bytecode) \/ Len(artifact.bytecode.v) = 0)
        THEN << E_bytecode >> ELSE << >>)

\* deriveArtifactFromAbiOnly naming the artifact after the whole file name
deriveArtifactFromAbiOnly_keepExt(filePath, data) ==
    LET fileBase == basename(filePath, << >>)
    IN  IF data.t = "array"
        THEN << [contractName |-> JString(fileBase), sourceName |-> JString(<< >>),
                 abi |-> JArray(data.v), bytecode |-> JUndefined] >>
        ELSE IF data.t = "object" /\ isArray(data.f.abi)
        THEN << [contractName |-> JString(fileBase), sourceName |-> JString(<< >>),
                 abi |-> data.f.abi,
                 bytecode |-> IF isString(data.f.bytecode) THEN data.f.bytecode ELSE JUndefined] >>
        ELSE << >>

\* << artifact >>, or << >> for null
deriveArtifactFromAbiOnly(filePath, data) ==
    LET fileBase == basename(filePath, extname(filePath))
    IN  IF data.t = "array"
        THEN << [contractName |-> JString(fileBase), sourceName |-> JString(<< >>),
                 abi |-> JArray(data.v), bytecode |-> JUndefined] >>
        ELSE IF data.t = "object" /\ isArray(data.f.abi)
        THEN << [contractName |-> JString(fileBase), sourceName |-> JString(<< >>),
                 abi |-> data.f.abi,
                 bytecode |-> IF isString(data.f.bytecode) THEN data.f.bytecode ELSE JUndefined] >>
        ELSE << >>

\* path.resolve for a path without "." and ".." segments
Cwd == << "/", "w" >>
resolve(p) == IF Len(p) > 0 /\ p[1] = "/" THEN p ELSE Cwd \o << "/" >> \o p

\* ValidateFile with the catch block dropping the error of a file that is not JSON
ValidateFile_swallow(data) ==
    /\ mainPc = "validate"
    /\ fileIdx <= Len(candidateFiles)
    /\ LET file == candidateFiles[fileIdx]
           includeDeployable == opts.deployable
       IN  IF data.t = "unparsable"
           THEN /\ UNCHANGED <<validationFailures, artifacts, artifactFile, notices, errs>>
           ELSE IF data.t = "null"
           THEN \* validateArtifact reads a property of null
                /\ validationFailures' = Append(validationFailures,
                                                [file |-> resolve(file), errors |-> << "TypeError" >>])
                /\ UNCHANGED <<artifacts, artifactFile, notices, errs>>
           ELSE /\ errs' = validateArtifact(data.f, includeDeployable)
                /\ IF Len(errs') > 0
                   THEN LET fallback == deriveArtifactFromAbiOnly(file, data)
                        IN  IF fallback # << >>
                            THEN /\ notices' = IF includeDeployable /\ ~isString(fallback[1].bytecode)
                                               THEN Append(notices, [file |-> resolve(file)])
                                               ELSE notices
                                 /\ artifacts' = Append(artifacts, fallback[1])
                                 /\ artifactFile' = Append(artifactFile, file)
                                 /\ UNCHANGED validationFailures
                            ELSE /\ validationFailures' = Append(validationFailures,
                                                                 [file |-> resolve(file), errors |-> errs'])
                                 /\ UNCHANGED <<artifacts, artifactFile, notices>>
                   ELSE /\ artifacts' = Append(artifacts, data.f)
                        /\ artifactFile' = Append(artifactFile, file)
                        /\ UNCHANGED <<notices, validationFailures>>
    /\ fileData' = Append(fileData, data)
    /\ fileIdx' = fileIdx + 1
    /\ UNCHANGED <<tree0, processArgv, mainPc, mainError, opts, inputs, candidateFiles, exitStatus>>

\* one iteration of the validation loop of main; data is what readJson gives for the file
ValidateFile(data) ==
    /\ mainPc = "validate"
    /\ fileIdx <= Len(candidateFiles)
    /\ LET file == candidateFiles[fileIdx]
           includeDeployable == opts.deployable
       IN  IF data.t = "unparsable"
           THEN \* JSON.parse throws
                /\ validationFailures' = Append(validationFailures,
                                                [file |-> resolve(file), errors |-> << "SyntaxError" >>])
                /\ UNCHANGED <<artifacts, artifactFile, notices, errs>>
           ELSE IF data.t = "null"
           THEN \* validateArtifact reads a property of null
                /\ validationFailures' = Append(validationFailures,
                                                [file |-> resolve(file), errors |-> << "TypeError" >>])
                /\ UNCHANGED <<artifacts, artifactFile, notices, errs>>
           ELSE /\ errs' = validateArtifact(data.f, includeDeployable)
                /\ IF Len(errs') > 0
                   THEN LET fallback == deriveArtifactFromAbiOnly(file, data)
                        IN  IF fallback # << >>
                            THEN /\ notices' = IF includeDeployable /\ ~isString(fallback[1].bytecode)
                                               THEN Append(notices, [file |-> resolve(file)])
                                               ELSE notices
                                 /\ artifacts' = Append(artifacts, fallback[1])
                                 /\ artifactFile' = Append(artifactFile, file)
                                 /\ UNCHANGED validationFailures
                            ELSE /\ validationFailures' = Append(validationFailures,
                                                                 [file |-> resolve(file), errors |-> errs'])
                                 /\ UNCHANGED <<artifacts, artifactFile, notices>>
                   ELSE /\ artifacts' = Append(artifacts, data.f)
                        /\ artifactFile' = Append(artifactFile, file)
                        /\ UNCHANGED <<notices, validationFailures>>
    /\ fileData' = Append(fileData, data)
    /\ fileIdx' = fileIdx + 1
    /\ UNCHANGED <<tree0, processArgv, mainPc, mainError, opts, inputs, candidateFiles, exitStatus>>

---------------------------------------------------------------------------
(* The programmatic API: construction, then clean and generate in any order *)

Dummy == OutDir \o << "/", "d" >>

InitialTrees ==
    { [files |-> {}, dirs |-> {}],
      [files |-> {}, dirs |-> { OutDir }],
      [files |-> { Dummy }, dirs |-> { OutDir }],
      [files |-> { OutDir }, dirs |-> {}] }

MainIdle ==
    /\ tree0 = [files |-> files, dirs |-> dirs]
    /\ processArgv = [version |-> "", deployable |-> FALSE, clean |-> FALSE, inputs |-> << >>]
    /\ mainError = ""
    /\ mainPc = "none"
    /\ opts = [out |-> OutDir, abigenVersion |-> "v2", deployable |-> FALSE, clean |-> FALSE]
    /\ inputs = << >>
    /\ candidateFiles = << >>
    /\ fileIdx = 0
    /\ fileData = << >>
    /\ artifacts = << >>
    /\ artifactFile = << >>
    /\ notices = << >>
    /\ validationFailures = << >>
    /\ errs = << >>
    /\ exitStatus = "running"

GenIdle ==
    /\ pc = "new"
    /\ abigenVersion = ""
    /\ genArtifacts = << >>
    /\ genDeployable = FALSE
    /\ idx = 0
    /\ invoked = << >>
    /\ raised = ""
    /\ calls = 0

InitGen ==
    /\ \E t \in InitialTrees : files = t.files /\ dirs = t.dirs
    /\ GenIdle
    /\ MainIdle

ApiConstruct == pc = "new" /\ \E version \in Versions : Construct(version)
ApiClean == Idle /\ calls < MaxCalls /\ Clean
ApiGenerate ==
    /\ Idle
    /\ calls < MaxCalls
    /\ \E arts \in SeqsUpTo(ApiArtifacts, MaxArtifacts), deployable \in BOOLEAN :
           GenerateCall(arts, deployable)
GeneratorReturns == \E ok \in { TRUE } : GenerateIteration(ok)
GeneratorFails == \E ok \in { FALSE } : GenerateIteration(ok)

NextGen ==
    \/ ApiConstruct /\ UNCHANGED mainVars
    \/ ApiClean /\ UNCHANGED mainVars
    \/ ApiGenerate /\ UNCHANGED mainVars
    \/ GeneratorReturns /\ UNCHANGED mainVars
    \/ GeneratorFails /\ UNCHANGED mainVars
    \/ GenerateReturn /\ UNCHANGED mainVars

SpecGen == InitGen /\ [][NextGen]_vars

---------------------------------------------------------------------------
(* Properties of the Generator *)

\* the external generator has just failed for genArtifacts[idx] and generate has raised that failure
GenerateRaised == pc = "generate.threw" /\ raised = "abigen"

\* C1: when generate raises the failure of the external generator for an artifact, neither the
\* staged .abi file nor (when it was staged) the .bin file of that artifact is left in the output root.
C1_CleanupOnFailure ==
    GenerateRaised =>
        /\ abiPathOf(genArtifacts[idx]) \notin files
        /\ stagesBin(genArtifacts[idx], genDeployable) => binPathOf(genArtifacts[idx]) \notin files

\* C2: after generate returns normally, for every artifact of the list neither its .abi nor its
\* .bin file exists in the output root.
C2_CleanupOnSuccess ==
    pc = "generate.returned" =>
        \A i \in DOMAIN genArtifacts :
            /\ abiPathOf(genArtifacts[i]) \notin files
            /\ binPathOf(genArtifacts[i]) \notin files

\* C5: a failure of the external generator for the i-th artifact ends generate at once with that
\* failure: the generator has been invoked for the artifacts 1..i in order and for no other, no
\* later step invokes it for this call, and the output of the artifacts before the i-th exists.
C5_GenerationFailureIsFatal ==
    /\ [](raised = "abigen" =>
            /\ pc = "generate.threw"
            /\ Len(invoked) = idx
            /\ \A j \in 1..idx : argAfter(invoked[j], Flag_abi) = abiPathOf(genArtifacts[j])
            /\ \A j \in 1..(idx - 1) : genPathOf(genArtifacts[j]) \in files)
    /\ [][GenerateRaised => (invoked' = invoked \/ (pc' = "generate" /\ invoked' = << >>))]_vars

C5_Witness ==
    /\ GenerateRaised
    /\ idx = 2
    /\ Len(genArtifacts) = 3
    /\ genPathOf(genArtifacts[1]) \in files

\* C6: construction throws "Unsupported abigen version" exactly when the version is neither "v1"
\* nor "v2", and then no operation of the object ever runs; with "v1" or "v2" it succeeds.
C6_VersionCheckedAtConstruction ==
    /\ pc # "new" => (pc = "ctor.threw" <=> abigenVersion \notin { "v1", "v2" })
    /\ pc = "ctor.threw" => raised = "Unsupported abigen version" /\ calls = 0 /\ invoked = << >>

C6_Witness == pc = "ctor.threw" /\ abigenVersion = "v3"

---------------------------------------------------------------------------
(* The validation of one file, over every shape of its content *)

P_T == << "/", "i", "/", "T", ".", "j", "s", "o", "n" >>
P_ab == << "/", "i", "/", "a", ".", "b", ".", "J", "S", "O", "N" >>
P_dot == << "/", "i", "/", ".", "j", "s", "o", "n" >>
P_rel == << "x", ".", "d", "/", "e", ".", "j", "s", "o", "n" >>

FilePaths == { P_T, P_ab, P_dot, P_rel }

NameShapes == { JUndefined, JNumber, JString(<< >>), JString(S_aB) }
SourceShapes == { JUndefined, JNumber, JString(<< >>), JString(S_src) }
AbiShapes == { JUndefined, JObject, JArray(AbiValue) }
BytecodeShapes == { JUndefined, JNumber, JString(<< >>), JString(S_code) }

ObjectShapes ==
    { Parsed("object", << >>, [contractName |-> n, sourceName |-> o, abi |-> a, bytecode |-> b]) :
        n \in NameShapes, o \in SourceShapes, a \in AbiShapes, b \in BytecodeShapes }

AllContents ==
    ObjectShapes \cup
    { Unparsable,
      Parsed("null", << >>, NoFields),
      Parsed("number", << "7" >>, NoFields),
      Parsed("string", S_T, NoFields),
      Parsed("array", << >>, NoFields),
      Parsed("array", AbiValue, NoFields) }

InitVal ==
    /\ files = {} /\ dirs = {}
    /\ GenIdle
    /\ tree0 = [files |-> files, dirs |-> dirs]
    /\ mainError = ""
    /\ mainPc = "validate"
    /\ \E d \in BOOLEAN : opts = [out |-> OutDir, abigenVersion |-> "v2", deployable |-> d, clean |-> FALSE]
    /\ \E f \in FilePaths : inputs = << f >> /\ candidateFiles = << f >>
    /\ processArgv = [version |-> "", deployable |-> opts.deployable, clean |-> FALSE, inputs |-> inputs]
    /\ fileIdx = 1
    /\ fileData = << >>
    /\ artifacts = << >>
    /\ artifactFile = << >>
    /\ notices = << >>
    /\ validationFailures = << >>
    /\ errs = << >>
    /\ exitStatus = "running"

ValidateAny == \E data \in AllContents : ValidateFile(data)

NextVal == ValidateAny /\ UNCHANGED genVars

SpecVal == InitVal /\ [][NextVal]_vars

\* the validation loop has processed its one file
Validated == fileIdx = 2 /\ Len(fileData) = 1
\* the content of that file is a JSON value other than null, so validateArtifact ran on it
Checked == Validated /\ fileData[1].t \notin { "unparsable", "null" }

\* the number of i in 1..n with P(i)
Count(b) == Cardinality({ k \in DOMAIN b : b[k] })

\* C3: with --deployable, a file holding a full artifact (a non-empty string contractName, a
\* non-empty string sourceName and an array abi) whose bytecode is missing or empty gets a
\* validation failure and adds nothing to the batch.
C3_FullWithoutBytecodeRejected ==
    (/\ Validated
     /\ opts.deployable
     /\ fileData[1].t = "object"
     /\ isString(fileData[1].f.contractName) /\ Len(fileData[1].f.contractName.v) > 0
     /\ isString(fileData[1].f.sourceName) /\ Len(fileData[1].f.sourceName.v) > 0
     /\ isArray(fileData[1].f.abi)
     /\ (~isString(fileData[1].f.bytecode) \/ Len(fileData[1].f.bytecode.v) = 0))
    => /\ artifacts = << >>
       /\ Len(validationFailures) = 1
       /\ validationFailures[1].file = resolve(candidateFiles[1])

\* C8: a full artifact with a non-empty string name, a string origin (possibly empty), an array
\* abi and, under --deployable, a non-empty bytecode validates without errors and is itself the
\* artifact added to the batch.
C8_ValidFullArtifactAccepted ==
    (/\ Validated
     /\ fileData[1].t = "object"
     /\ isString(fileData[1].f.contractName) /\ Len(fileData[1].f.contractName.v) > 0
     /\ isString(fileData[1].f.sourceName)
     /\ isArray(fileData[1].f.abi)
     /\ opts.deployable => (isString(fileData[1].f.bytecode) /\ Len(fileData[1].f.bytecode.v) > 0))
    => /\ errs = << >>
       /\ artifacts = << fileData[1].f >>
       /\ validationFailures = << >>

\* C9: validateArtifact returns exactly one distinct message per violated rule among: contractName
\* not a non-empty string, sourceName not a string, abi not an array, bytecode missing or empty
\* when required.
C9_OneMessagePerViolation ==
    Checked =>
        LET a == fileData[1].f
            badName == ~isString(a.contractName) \/ Len(a.contractName.v) = 0
            badSource == ~isString(a.sourceName)
            badAbi == ~isArray(a.abi)
            badBytecode == opts.deployable /\ (~isString(a.bytecode) \/ Len(a.bytecode.v) = 0)
        IN  /\ Len(errs) = Count(<< badName, badSource, badAbi, badBytecode >>)
            /\ Cardinality(Range(errs)) = Len(errs)
            /\ (E_contractName \in Range(errs)) <=> badName
            /\ (E_sourceName \in Range(errs)) <=> badSource
            /\ (E_abi \in Range(errs)) <=> badAbi
            /\ (E_bytecode \in Range(errs)) <=> badBytecode

\* name is the last segment of path with its extension stripped: the segment is name followed by
\* nothing (when it has no "." after its first character) or by a "." and characters other than "."
IsBaseNameOf(name, path) ==
    \E ext \in { SubSeq(path, k, Len(path)) : k \in 1..(Len(path) + 1) } :
        LET seg == name \o ext
        IN  /\ IsSuffix(seg, path)
            /\ Len(seg) = Len(path) \/ path[Len(path) - Len(seg)] = "/"
            /\ \A i \in DOMAIN seg : seg[i] # "/"
            /\ \/ ext = << >> /\ \A i \in 2..Len(seg) : seg[i] # "."
               \/ /\ Len(ext) > 0 /\ ext[1] = "." /\ Len(name) > 0
                  /\ \A i \in 2..Len(ext) : ext[i] # "."

\* C10: a bare array, or an object with an array abi that fails full validation, yields the
\* artifact (base name of the file without extension, empty origin, that array, the object's
\* bytecode when it is a string and none otherwise); any other JSON value that fails full
\* validation yields no artifact.
C10_FallbackInference ==
    (Checked /\ Len(errs) > 0) =>
        LET data == fileData[1]
        IN  IF data.t = "array" \/ (data.t = "object" /\ isArray(data.f.abi))
            THEN /\ Len(artifacts) = 1
                 /\ isString(artifacts[1].contractName)
                 /\ IsBaseNameOf(artifacts[1].contractName.v, candidateFiles[1])
                 /\ artifacts[1].sourceName = JString(<< >>)
                 /\ artifacts[1].abi = (IF data.t = "array" THEN JArray(data.v) ELSE data.f.abi)
                 /\ artifacts[1].bytecode =
                        (IF data.t = "object" /\ isString(data.f.bytecode)
                         THEN data.f.bytecode ELSE JUndefined)
            ELSE artifacts = << >>

C10_Witness ==
    /\ Checked
    /\ candidateFiles[1] = P_ab
    /\ fileData[1].t = "object"
    /\ fileData[1].f.bytecode = JString(S_code)
    /\ Len(artifacts) = 1
    /\ artifacts[1].contractName = JString(<< "a", ".", "b" >>)
    /\ artifacts[1].bytecode = JString(S_code)

---------------------------------------------------------------------------
(* Input collection (src/index.ts) *)

Lit_json == << ".", "j", "s", "o", "n" >>

I_dir == Cwd \o << "/", "i" >>
I_a == I_dir \o << "/", "a" >> \o Lit_json
I_r == I_dir \o << "/", "r", ".", "t", "x", "t" >>
I_d == I_dir \o << "/", "d" >>
I_B == I_d \o << "/", "B", ".", "J", "S", "O", "N" >>

InputTree == [files |-> { I_a, I_r, I_B }, dirs |-> { Cwd, I_dir, I_d }]

\* every path of the input tree, in the order readdir lists names
ReaddirOrder == << I_a, I_d, I_B, I_r >>

\* fsp.readdir(dirPath, {withFileTypes: true}), as the full paths of the entries
readdir(dirPath) ==
    SelectSeq(ReaddirOrder, LAMBDA e : exists(e) /\ e # dirPath /\ IsPrefix(dirPath \o << "/" >>, e)
                                       /\ \A i \in (Len(dirPath) + 2)..Len(e) : e[i] # "/")

RECURSIVE listFilesRecursively(_)
RECURSIVE listEntries(_)
listEntries(entries) ==
    IF entries = << >> THEN << >>
    ELSE LET full == Head(entries)
         IN  (IF full \in dirs THEN listFilesRecursively(full)
              ELSE IF full \in files THEN << full >>
              ELSE << >>) \o listEntries(Tail(entries))
listFilesRecursively(dirPath) == listEntries(readdir(dirPath))

RECURSIVE collectAll(_)
\* the files array of collectCandidateFiles after its loop
collectAll(ins) ==
    IF ins = << >> THEN << >>
    ELSE LET abs == resolve(Head(ins))
         IN  (IF abs \in files THEN << abs >>
              ELSE IF abs \in dirs THEN listFilesRecursively(abs)
              ELSE << >>) \o collectAll(Tail(ins))

RECURSIVE dedupe(_)
\* Array.from(new Set(xs)): first occurrences, in order
dedupe(xs) ==
    IF xs = << >> THEN << >>
    ELSE LET front == dedupe(SubSeq(xs, 1, Len(xs) - 1))
             last == xs[Len(xs)]
         IN  IF last \in Range(front) THEN front ELSE Append(front, last)

\* collectCandidateFiles comparing the extension as written
collectCandidateFiles_caseSensitive(ins) ==
    dedupe(SelectSeq(collectAll(ins), LAMBDA f : IsSuffix(Lit_json, f)))

collectCandidateFiles(ins) ==
    dedupe(SelectSeq(collectAll(ins), LAMBDA f : IsSuffix(Lit_json, toLowerCase(f))))

---------------------------------------------------------------------------
(* main (src/index.ts) *)

DefaultAbigenVersion == "v2"

\* commander: options with their defaults, and the positional arguments
MainParse ==
    /\ mainPc = "start"
    /\ opts' = [out |-> OutDir,
                abigenVersion |-> IF processArgv.version = "" THEN DefaultAbigenVersion
                                  ELSE processArgv.version,
                deployable |-> processArgv.deployable,
                clean |-> processArgv.clean]
    /\ inputs' = processArgv.inputs
    /\ IF Len(processArgv.inputs) = 0
       THEN /\ mainError' = "Provide at least one file or directory containing artifacts"
            /\ exitStatus' = "1"
            /\ mainPc' = "done"
       ELSE /\ mainPc' = "collect"
            /\ UNCHANGED <<mainError, exitStatus>>
    /\ UNCHANGED <<tree0, processArgv, candidateFiles, fileIdx, fileData, artifacts, artifactFile,
                   notices, validationFailures, errs>>
    /\ UNCHANGED genVars

MainCollect ==
    /\ mainPc = "collect"
    /\ candidateFiles' = collectCandidateFiles(inputs)
    /\ IF Len(candidateFiles') = 0
       THEN /\ mainError' = "No candidate JSON files found in provided inputs"
            /\ exitStatus' = "1"
            /\ mainPc' = "done"
            /\ UNCHANGED fileIdx
       ELSE /\ mainPc' = "validate"
            /\ fileIdx' = 1
            /\ UNCHANGED <<mainError, exitStatus>>
    /\ UNCHANGED <<tree0, processArgv, opts, inputs, fileData, artifacts, artifactFile,
                   notices, validationFailures, errs>>
    /\ UNCHANGED genVars

\* MainPrepare giving up when any file failed validation
MainPrepare_strict ==
    /\ mainPc = "validate"
    /\ fileIdx > Len(candidateFiles)
    /\ IF Len(artifacts) = 0 \/ Len(validationFailures) > 0
       THEN /\ mainError' = "No valid artifacts to process after validation"
            /\ exitStatus' = "1"
            /\ mainPc' = "done"
            /\ UNCHANGED <<files, dirs>>
       ELSE LET doClean == opts.clean /\ exists(opts.out)
                files1 == IF doClean THEN { p \in files : ~Under(opts.out, p) } ELSE files
                dirs1 == IF doClean THEN { p \in dirs : ~Under(opts.out, p) } ELSE dirs
            IN  /\ files' = files1
                /\ IF opts.out \in files1
                   THEN \* fsp.mkdir rejects: the output path is a regular file
                        /\ dirs' = dirs1
                        /\ mainError' = "EEXIST"
                        /\ exitStatus' = "1"
                        /\ mainPc' = "done"
                   ELSE /\ dirs' = dirs1 \cup mkdirRecursive(opts.out)
                        /\ mainPc' = "construct"
                        /\ UNCHANGED <<mainError, exitStatus>>
    /\ UNCHANGED <<tree0, processArgv, opts, inputs, candidateFiles, fileIdx, fileData, artifacts,
                   artifactFile, notices, validationFailures, errs>>
    /\ UNCHANGED <<pc, abigenVersion, genArtifacts, genDeployable, idx, invoked, raised, calls>>

\* after the validation loop: the batch must not be empty; --clean; create the output directory
MainPrepare ==
    /\ mainPc = "validate"
    /\ fileIdx > Len(candidateFiles)
    /\ IF Len(artifacts) = 0
       THEN /\ mainError' = "No valid artifacts to process after validation"
            /\ exitStatus' = "1"
            /\ mainPc' = "done"
            /\ UNCHANGED <<files, dirs>>
       ELSE LET doClean == opts.clean /\ exists(opts.out)
                files1 == IF doClean THEN { p \in files : ~Under(opts.out, p) } ELSE files
                dirs1 == IF doClean THEN { p \in dirs : ~Under(opts.out, p) } ELSE dirs
            IN  /\ files' = files1
                /\ IF opts.out \in files1
                   THEN \* fsp.mkdir rejects: the output path is a regular file
                        /\ dirs' = dirs1
                        /\ mainError' = "EEXIST"
                        /\ exitStatus' = "1"
                        /\ mainPc' = "done"
                   ELSE /\ dirs' = dirs1 \cup mkdirRecursive(opts.out)
                        /\ mainPc' = "construct"
                        /\ UNCHANGED <<mainError, exitStatus>>
    /\ UNCHANGED <<tree0, processArgv, opts, inputs, candidateFiles, fileIdx, fileData, artifacts,
                   artifactFile, notices, validationFailures, errs>>
    /\ UNCHANGED <<pc, abigenVersion, genArtifacts, genDeployable, idx, invoked, raised, calls>>

\* new Generator(opts.out, opts.abigenVersion, ...)
MainConstruct ==
    /\ mainPc = "construct"
    /\ Construct(opts.abigenVersion)
    /\ IF pc' = "ctor.threw"
       THEN /\ mainError' = raised'
            /\ exitStatus' = "1"
            /\ mainPc' = "done"
       ELSE /\ mainPc' = "call"
            /\ UNCHANGED <<mainError, exitStatus>>
    /\ UNCHANGED <<tree0, processArgv, opts, inputs, candidateFiles, fileIdx, fileData, artifacts,
                   artifactFile, notices, validationFailures, errs>>

\* generator.generate(artifacts, includeDeployable, opts.verbose)
MainGenerate ==
    /\ mainPc = "call"
    /\ GenerateCall(artifacts, opts.deployable)
    /\ mainPc' = "generating"
    /\ UNCHANGED <<tree0, processArgv, mainError, opts, inputs, candidateFiles, fileIdx, fileData,
                   artifacts, artifactFile, notices, validationFailures, errs, exitStatus>>

\* generate has returned or thrown: main ends, and with it the process
MainExit ==
    /\ mainPc = "generating"
    /\ pc \in { "generate.returned", "generate.threw" }
    /\ IF pc = "generate.returned"
       THEN exitStatus' = "0" /\ UNCHANGED mainError
       ELSE exitStatus' = "1" /\ mainError' = raised
    /\ mainPc' = "done"
    /\ UNCHANGED <<tree0, processArgv, opts, inputs, candidateFiles, fileIdx, fileData, artifacts,
                   artifactFile, notices, validationFailures, errs>>
    /\ UNCHANGED genVars

Fields(n, o, a, b) == [contractName |-> n, sourceName |-> o, abi |-> a, bytecode |-> b]

\* contents of the input files of a run
CliContents ==
    { Unparsable,
      Parsed("array", AbiValue, NoFields),
      Parsed("object", << >>, Fields(JString(S_T), JString(S_src), JArray(AbiValue), JString(S_code))),
      Parsed("object", << >>, Fields(JString(S_T), JString(S_src), JArray(AbiValue), JUndefined)),
      Parsed("object", << >>, Fields(JString(S_T), JString(S_src), JArray(AbiValue), JString(<< >>))),
      Parsed("object", << >>, Fields(JString(<< "X" >>), JUndefined, JUndefined, JUndefined)) }

InputPaths == { << "i" >>, I_d, << "i", "/", "a" >> \o Lit_json, I_r, << "m" >> }

OutputTrees ==
    { [files |-> {}, dirs |-> {}],
      [files |-> { Dummy }, dirs |-> { OutDir }],
      [files |-> { OutDir }, dirs |-> {}] }

Init ==
    /\ \E t \in OutputTrees :
           /\ files = t.files \cup InputTree.files
           /\ dirs = t.dirs \cup InputTree.dirs
    /\ GenIdle
    /\ tree0 = [files |-> files, dirs |-> dirs]
    /\ \E v \in { "", "v1", "v3" }, d \in BOOLEAN, c \in BOOLEAN, ins \in SeqsUpTo(InputPaths, MaxInputs) :
           processArgv = [version |-> v, deployable |-> d, clean |-> c, inputs |-> ins]
    /\ mainPc = "start"
    /\ mainError = ""
    /\ opts = [out |-> OutDir, abigenVersion |-> "", deployable |-> FALSE, clean |-> FALSE]
    /\ inputs = << >>
    /\ candidateFiles = << >>
    /\ fileIdx = 0
    /\ fileData = << >>
    /\ artifacts = << >>
    /\ artifactFile = << >>
    /\ notices = << >>
    /\ validationFailures = << >>
    /\ errs = << >>
    /\ exitStatus = "running"

MainValidate == \E data \in CliContents : ValidateFile(data)

Next ==
    \/ MainParse
    \/ MainCollect
    \/ MainValidate /\ UNCHANGED genVars
    \/ MainPrepare
    \/ MainConstruct
    \/ MainGenerate
    \/ GeneratorReturns /\ UNCHANGED mainVars
    \/ GeneratorFails /\ UNCHANGED mainVars
    \/ GenerateReturn /\ UNCHANGED mainVars
    \/ MainExit

Spec == Init /\ [][Next]_vars

---------------------------------------------------------------------------
(* Properties of a run of the CLI *)

\* the content of a candidate file that neither is a full artifact nor allows fallback inference
Rejected(data) == data.t # "array" /\ ~(data.t = "object" /\ isArray(data.f.abi))

ValidationDone == mainPc \notin { "start", "collect", "validate" }

\* every candidate file was read; a file is left out of the batch exactly when its content is
\* rejected, and then a validation failure names its path
C4_Partial ==
    /\ ValidationDone => Len(fileData) = Len(candidateFiles)
    /\ \A i \in DOMAIN fileData :
           /\ Rejected(fileData[i]) <=> candidateFiles[i] \notin Range(artifactFile)
           /\ Rejected(fileData[i]) =>
                  \E k \in DOMAIN validationFailures :
                      validationFailures[k].file = resolve(candidateFiles[i])

\* C4 as stated: partial-failure validation, and a run with at least one valid artifact generates
\* bindings for the valid ones and ends with status 0.
C4_Original ==
    /\ C4_Partial
    /\ (mainPc = "done" /\ Len(artifacts) > 0) =>
           /\ exitStatus = "0"
           /\ genArtifacts = artifacts
           /\ \A j \in DOMAIN artifacts : genPathOf(artifacts[j]) \in files

\* C4 as amended: partial-failure validation, and a run with at least one valid artifact goes on to
\* generation; it ends with status 0, having generated bindings for exactly the valid ones, exactly
\* when creating the output directory, constructing the Generator and generate do not raise, and
\* with status 1 and that error otherwise.
C4_PartialFailureValidation ==
    /\ C4_Partial
    /\ (mainPc = "done" /\ Len(artifacts) > 0) =>
           /\ exitStatus = "0" <=> pc = "generate.returned"
           /\ exitStatus = "0" =>
                  /\ genArtifacts = artifacts
                  /\ \A j \in DOMAIN artifacts : genPathOf(artifacts[j]) \in files
           /\ exitStatus # "0" =>
                  /\ exitStatus = "1"
                  /\ mainError \in { "EEXIST", "Unsupported abigen version", "abigen" }

C4_Witness ==
    /\ mainPc = "done"
    /\ exitStatus = "0"
    /\ Len(candidateFiles) = 2
    /\ fileData[1] = Unparsable
    /\ Len(validationFailures) = 1
    /\ Len(artifacts) = 1
    /\ genPathOf(artifacts[1]) \in files

UsageErrors ==
    { "Provide at least one file or directory containing artifacts",
      "No candidate JSON files found in provided inputs",
      "Unsupported abigen version" }

\* C7: a run that ends with a usage error (no inputs, no candidate files, unsupported abigen
\* version) leaves the filesystem as it was: the output directory neither removed nor created,
\* nothing staged or generated.
C7_UsageErrorLeavesOutputUntouched ==
    (mainPc = "done" /\ mainError \in UsageErrors) =>
        /\ files = tree0.files
        /\ dirs = tree0.dirs
        /\ invoked = << >>

\* the content of a file from which fallback inference derives an artifact without bytecode
InferredWithoutBytecode(data) ==
    \/ data.t = "array"
    \/ data.t = "object" /\ isArray(data.f.abi) /\ ~isString(data.f.bytecode)

NoticesFor(file) == { n \in DOMAIN notices : notices[n].file = resolve(file) }

\* C11: under --deployable, a file whose fallback artifact has no bytecode is not rejected: its
\* artifact is in the batch, exactly one warning names the file, and generate invokes the external
\* generator for that artifact without --bin.
C11_DeployableFallbackWithoutBytecode ==
    opts.deployable =>
        /\ \A k \in DOMAIN fileData :
               InferredWithoutBytecode(fileData[k]) =>
                   /\ candidateFiles[k] \in Range(artifactFile)
                   /\ \A e \in DOMAIN validationFailures :
                          validationFailures[e].file # resolve(candidateFiles[k])
                   /\ Cardinality(NoticesFor(candidateFiles[k])) = 1
        /\ \A j \in DOMAIN invoked :
               ~isString(artifacts[j].bytecode) =>
                   /\ Flag_bin \notin Range(invoked[j])
                   /\ argAfter(invoked[j], Flag_abi) = abiPathOf(artifacts[j])

C11_Witness ==
    /\ mainPc = "done"
    /\ exitStatus = "0"
    /\ opts.deployable
    /\ Len(fileData) = 1
    /\ fileData[1].t = "array"
    /\ Len(artifacts) = 1
    /\ Len(notices) = 1
    /\ Len(invoked) = 1
    /\ Flag_bin \notin Range(invoked[1])
    /\ genPathOf(artifacts[1]) \in files

---------------------------------------------------------------------------
(* One call of generate for one artifact, over names, origins and bytecodes *)

N_cool == << "3", "-", "c", "o", "o", "l", "_", "t", "o", "k", "e", "n" >>
N_sym == << "_", "-" >>
N_sp == << "a", " ", "b" >>

O_dot == << "." >>
O_T == << "T", ".", "s" >>
O_here == << ".", "/", "T", ".", "s" >>
O_deep == << "c", "/", "d", "/", "T", ".", "s" >>

PlanNames == { S_T, S_aB, N_cool, N_sym, N_sp }
PlanSources == { << >>, O_dot, O_T, O_here, S_src, O_deep }

PlanArtifacts ==
    { Art(n, JString(o), b) : n \in PlanNames, o \in PlanSources, b \in BytecodeShapes }

PlanTrees ==
    { [files |-> {}, dirs |-> {}],
      [files |-> { Dummy }, dirs |-> { OutDir }] }

InitPlan ==
    /\ \E t \in PlanTrees : files = t.files /\ dirs = t.dirs
    /\ GenIdle
    /\ MainIdle

PlanGenerate ==
    /\ pc = "ready"
    /\ \E artifact \in PlanArtifacts, deployable \in BOOLEAN :
           GenerateCall(<< artifact >>, deployable)

NextPlan ==
    \/ ApiConstruct /\ UNCHANGED mainVars
    \/ PlanGenerate /\ UNCHANGED mainVars
    \/ GeneratorReturns /\ UNCHANGED mainVars
    \/ GeneratorFails /\ UNCHANGED mainVars
    \/ GenerateReturn /\ UNCHANGED mainVars

SpecPlan == InitPlan /\ [][NextPlan]_vars

NoSpace(s) == " " \notin Range(s)

\* the directory part of a relative origin written without repeated or trailing separators
DirOf(o) ==
    IF "/" \notin Range(o) THEN << "." >>
    ELSE SubSeq(o, 1, (CHOOSE i \in DOMAIN o : o[i] = "/" /\ \A j \in (i + 1)..Len(o) : o[j] # "/") - 1)

\* the name with every "-" and "_" removed and then lower-cased
PackageOf(name) ==
    CASE name = S_T -> << "t" >>
      [] name = S_aB -> << "a", "b" >>
      [] name = N_cool -> << "3", "c", "o", "o", "l", "t", "o", "k", "e", "n" >>
      [] name = N_sym -> << >>
      [] name = N_sp -> << "a", " ", "b" >>

NestedPath(name, o) ==
    OutDir \o << "/" >> \o DirOf(o) \o << "/" >> \o PackageOf(name) \o << "/" >> \o name \o Lit_go
FlatPath(name) == OutDir \o << "/" >> \o name \o Lit_go

\* generate has returned normally for the one artifact of the call and Written is what it added
PlanReturned == pc = "generate.returned" /\ Len(genArtifacts) = 1
Written == files \ tree0.files

Flag_type == << "-", "-", "t", "y", "p", "e" >>

\* the type identifier the rule gives for each name
TypeOf(name) ==
    CASE name = S_T -> << "T" >>
      [] name = S_aB -> << "A", "B" >>
      [] name = N_cool -> << "X", "3", "c", "o", "o", "l", "t", "o", "k", "e", "n" >>
      [] name = N_sym -> << "C", "o", "n", "t", "r", "a", "c", "t" >>
      [] name = N_sp -> << "A", "b" >>

\* an identifier of letters and digits that begins with an upper-case letter
IsTypeIdentifier(t) ==
    /\ Len(t) > 0
    /\ \A i \in DOMAIN t : t[i] \in Range(UpperChars) \cup Range(LowerChars) \cup Range(DigitChars)
    /\ t[1] \in Range(UpperChars)

\* C13: whenever generate invokes the external generator for an artifact, the argument vector
\* holds --type followed by the identifier the rule gives for the artifact's name: the name without
\* its non-alphanumeric characters, capitalized when it begins with a letter, prefixed with "X"
\* when it begins with a digit, "Contract" when nothing is left; it is non-empty, made of ASCII
\* letters and digits, and begins with an upper-case letter.
C13_TypeIdentifier ==
    \A j \in DOMAIN invoked :
        LET name == genArtifacts[j].contractName.v
        IN  /\ name \in PlanNames =>
                   \E k \in 1..(Len(invoked[j]) - 1) :
                       invoked[j][k] = Flag_type /\ invoked[j][k + 1] = TypeOf(name)
            /\ \A k \in 1..(Len(invoked[j]) - 1) :
                   invoked[j][k] = Flag_type => IsTypeIdentifier(invoked[j][k + 1])

C13_Witness ==
    /\ Len(invoked) = 1
    /\ genArtifacts[1].contractName.v = N_cool
    /\ argAfter(invoked[1], Flag_type) = << "X", "3", "c", "o", "o", "l", "t", "o", "k", "e", "n" >>

\* the report commander gives for a mandatory option that is missing
E_versionRequired == "error: required option '-V, --abigen-version <version>' not specified"

\* C14: a run with inputs that hold a valid artifact and without the abigen-version option (the
\* output path being free or a directory, and the external generator not failing) ends with
\* status 1, reports an error that mentions --abigen-version, and never invokes the generator.
C14_MissingVersionFails ==
    (/\ mainPc = "done"
     /\ processArgv.version = ""
     /\ Len(artifacts) > 0
     /\ OutDir \notin tree0.files
     /\ raised # "abigen") =>
        /\ exitStatus = "1"
        /\ mainError = E_versionRequired
        /\ invoked = << >>

\* a step that is a call of clean
CleanStep == calls' # calls /\ pc' \in { "clean.returned", "clean.threw" }

\* C15: after clean returns normally neither the output directory nor anything beneath it exists,
\* and a call that finds the output path absent changes nothing; a call that finds a regular file
\* at the output path fails with "outdir is not a directory" and removes nothing.
C15_Clean ==
    /\ [](pc = "clean.returned" => \A p \in files \cup dirs : ~Under(OutDir, p))
    /\ [](pc = "clean.threw" => raised = "outdir is not a directory" /\ OutDir \in files)
    /\ [][(CleanStep /\ ~exists(OutDir)) =>
              (pc' = "clean.returned" /\ files' = files /\ dirs' = dirs)]_vars
    /\ [][(CleanStep /\ OutDir \in files) =>
              (pc' = "clean.threw" /\ files' = files /\ dirs' = dirs)]_vars
    /\ [][(CleanStep /\ OutDir \in dirs) => pc' = "clean.returned"]_vars

C15_Witness ==
    /\ pc = "clean.returned"
    /\ calls = 2
    /\ Len(invoked) = 1
    /\ Dummy \in tree0.files
    /\ files = {}
    /\ dirs = {}

\* the name ends in .json, compared without regard to case
EndsJsonCI(f) ==
    /\ Len(f) >= 5
    /\ f[Len(f) - 4] = "."
    /\ f[Len(f) - 3] \in { "j", "J" }
    /\ f[Len(f) - 2] \in { "s", "S" }
    /\ f[Len(f) - 1] \in { "o", "O" }
    /\ f[Len(f)] \in { "n", "N" }

\* the regular .json files given directly or lying at any depth under a given directory
ExpectedCandidates ==
    { f \in tree0.files :
        /\ EndsJsonCI(f)
        /\ \E i \in DOMAIN inputs :
               \/ resolve(inputs[i]) = f
               \/ resolve(inputs[i]) \in tree0.dirs /\ IsPrefix(resolve(inputs[i]) \o << "/" >>, f) }

\* collectCandidateFiles has returned
CollectDone ==
    /\ mainPc \notin { "start", "collect" }
    /\ mainError # "Provide at least one file or directory containing artifacts"

\* C16: for every list of inputs, missing ones included, collectCandidateFiles returns; its result
\* holds exactly the regular files given directly or lying under a given directory whose name
\* ends in .json without regard to case, each once; the run fails at this stage exactly when the
\* result is empty.
C16_InputCollection ==
    /\ (mainPc \notin { "start", "collect" } /\ Len(inputs) > 0) => CollectDone
    /\ CollectDone =>
           /\ Range(candidateFiles) = ExpectedCandidates
           /\ Len(candidateFiles) = Cardinality(ExpectedCandidates)
           /\ mainError = "No candidate JSON files found in provided inputs" <=> candidateFiles = << >>

C16_Witness ==
    /\ mainPc = "validate"
    /\ inputs = << << "i" >>, I_d >>
    /\ candidateFiles = << I_a, I_B >>

\* <outDir>/<contractName>.bin
BinFile(name) == OutDir \o << "/" >> \o name \o << ".", "b", "i", "n" >>

\* deployable is true and the bytecode of the artifact is a non-empty string
WantsBin(artifact, deployable) == deployable /\ artifact.bytecode = JString(S_code)

\* C17: the argument vector of an invocation holds --bin (followed by <outDir>/<contractName>.bin)
\* exactly when deployable is true and the bytecode is a non-empty string, and exactly then the
\* .bin file is on disk while the external generator runs; otherwise no .bin file is ever written;
\* the vector holds --v2 exactly when the Generator was constructed with v2.
C17_BinAndVersionFlags ==
    /\ \A j \in DOMAIN invoked :
           LET artifact == genArtifacts[j]
               name == artifact.contractName.v
           IN  /\ Flag_bin \in Range(invoked[j]) <=> WantsBin(artifact, genDeployable)
               /\ (WantsBin(artifact, genDeployable) /\ NoSpace(name)) =>
                      argAfter(invoked[j], Flag_bin) = BinFile(name)
               /\ Flag_v2 \in Range(invoked[j]) <=> abigenVersion = "v2"
    /\ GenerateRaised =>
           (BinFile(genArtifacts[idx].contractName.v) \in files
                <=> WantsBin(genArtifacts[idx], genDeployable))
    /\ \A j \in DOMAIN genArtifacts :
           ~WantsBin(genArtifacts[j], genDeployable) =>
               BinFile(genArtifacts[j].contractName.v) \notin files

C17_Witness ==
    /\ GenerateRaised
    /\ genDeployable
    /\ abigenVersion = "v2"
    /\ genArtifacts[1].bytecode = JString(S_code)
    /\ genArtifacts[1].contractName.v = S_aB
    /\ BinFile(S_aB) \in files
    /\ argAfter(invoked[1], Flag_bin) = BinFile(S_aB)
    /\ Flag_v2 \in Range(invoked[1])

\* the position of a candidate file in the list
IndexOf(file) == CHOOSE k \in DOMAIN candidateFiles : candidateFiles[k] = file

\* C18: each candidate file the validation loop has processed has exactly one outcome, one artifact
\* of the batch or one validation failure: the two lists together are as long as the list of
\* processed files (all candidate files once the loop is over), every artifact is the content of
\* its file or the artifact inferred from it, and artifacts are in the order of their files.
C18_OneOutcomePerFile ==
    /\ Len(artifacts) + Len(validationFailures) = Len(fileData)
    /\ ValidationDone => Len(fileData) = Len(candidateFiles)
    /\ Len(artifactFile) = Len(artifacts)
    /\ \A k \in DOMAIN fileData :
           Cardinality({ j \in DOMAIN artifactFile : artifactFile[j] = candidateFiles[k] })
             + Cardinality({ e \in DOMAIN validationFailures :
                               validationFailures[e].file = resolve(candidateFiles[k]) }) = 1
    /\ \A j \in DOMAIN artifacts :
           /\ artifactFile[j] \in Range(candidateFiles)
           /\ artifacts[j] \in { fileData[IndexOf(artifactFile[j])].f }
                                 \cup Range(deriveArtifactFromAbiOnly(artifactFile[j],
                                                                     fileData[IndexOf(artifactFile[j])]))
    /\ \A i, j \in DOMAIN artifacts :
           i < j => IndexOf(artifactFile[i]) < IndexOf(artifactFile[j])

C18_Witness ==
    /\ ValidationDone
    /\ Len(candidateFiles) = 2
    /\ fileData[1].t = "object"
    /\ fileData[2] = Unparsable
    /\ Len(artifacts) = 1
    /\ artifactFile[1] = candidateFiles[1]
    /\ Len(validationFailures) = 1
    /\ validationFailures[1].file = candidateFiles[2]

\* C19: under --deployable every artifact of the batch whose bytecode is absent, not a string or
\* the empty string has a warning naming its file, and every invocation of the generator for an
\* artifact without such a warning carries --bin.
C19_DeployableNeverDegradesSilently ==
    opts.deployable =>
        /\ \A j \in DOMAIN artifacts :
               (~isString(artifacts[j].bytecode) \/ artifacts[j].bytecode.v = << >>) =>
                   NoticesFor(artifactFile[j]) # {}
        /\ \A j \in DOMAIN invoked :
               NoticesFor(artifactFile[j]) = {} => Flag_bin \in Range(invoked[j])

====
